---------------------------- MODULE Spec2Model ----------------------------
(***************************************************************************)
(* A model of app.py, the Mechatronics BI dashboard: the cached            *)
(* load-and-clean pipeline (load_data_v10 and its inner clean), the column *)
(* resolver get_col, and the Project Explorer's BOM melt / filter / join.  *)
(*                                                                         *)
(* Text is a sequence of one-character strings, so that strip, upper,      *)
(* title, the "\.0$" substitution and the junk pattern are computed the    *)
(* way pandas / Python compute them.  A table is a record                  *)
(* [kind, columns, rows]: kind "none" is Python's None, kind "frame" a     *)
(* DataFrame whose rows are sequences aligned with columns.  A cell is a   *)
(* text or NaN (a missing value).  A numeric cell is held as the text      *)
(* astype(str) gives it ("2095.0" for the float 2095.0, "0" for 0).        *)
(***************************************************************************)
EXTENDS Integers, Sequences, FiniteSets, TLC

VARIABLES
    workbook,       \* the file "Mechatronics Project Parts_Data.xlsx" on disk
    cache,          \* st.cache_data's entry for load_data_v10
    df_components,  \* module-level globals of the last script run
    df_sets,
    df_projects,
    page,           \* the nav_main radio
    selected_proj,  \* the project selectbox
    filters,        \* the multiselects and search boxes of the other views
    run,            \* what the last script run did
    hist,           \* history of the pipeline: executions and reloads
    h_df,           \* function harness: the table argument
    h_cands,        \* function harness: the candidate list
    h_ret,          \* function harness: the values returned so far
    h_pc            \* function harness: position

vars == <<workbook, cache, df_components, df_sets, df_projects, page,
          selected_proj, filters, run, hist, h_df, h_cands, h_ret, h_pc>>

appVars == <<workbook, cache, df_components, df_sets, df_projects, page,
             selected_proj, filters, run, hist>>

harnessVars == <<h_df, h_cands, h_ret, h_pc>>

---------------------------------------------------------------------------
(* Bounds of the model.                                                    *)

MaxLen == 3         \* longest generated cell text
MaxPasses == 2      \* how often the harness re-applies clean
MaxHeaders == 3     \* most headers of a table handed to get_col
MaxCands == 2       \* longest candidate list handed to get_col
MaxExec == 3        \* pipeline executions counted by hist
MaxPick == 1        \* most values picked in one multiselect
MaxKeyLen == 2      \* longest generated part-number text

---------------------------------------------------------------------------
(* Characters and Python's str methods.                                    *)

Whitespace == {" "}

\* A sequence given as a function on 1..n, as the tuple it is.
AsTuple(f) == f \o <<>>

ToUpper ==
    ("a" :> "A") @@ ("b" :> "B") @@ ("c" :> "C") @@ ("d" :> "D")
    @@ ("e" :> "E") @@ ("f" :> "F") @@ ("g" :> "G") @@ ("h" :> "H")
    @@ ("i" :> "I") @@ ("j" :> "J") @@ ("k" :> "K") @@ ("l" :> "L")
    @@ ("m" :> "M") @@ ("n" :> "N") @@ ("o" :> "O") @@ ("p" :> "P")
    @@ ("q" :> "Q") @@ ("r" :> "R") @@ ("s" :> "S") @@ ("t" :> "T")
    @@ ("u" :> "U") @@ ("v" :> "V") @@ ("w" :> "W") @@ ("x" :> "X")
    @@ ("y" :> "Y") @@ ("z" :> "Z")

ToLower ==
    ("A" :> "a") @@ ("B" :> "b") @@ ("C" :> "c") @@ ("D" :> "d")
    @@ ("E" :> "e") @@ ("F" :> "f") @@ ("G" :> "g") @@ ("H" :> "h")
    @@ ("I" :> "i") @@ ("J" :> "j") @@ ("K" :> "k") @@ ("L" :> "l")
    @@ ("M" :> "m") @@ ("N" :> "n") @@ ("O" :> "o") @@ ("P" :> "p")
    @@ ("Q" :> "q") @@ ("R" :> "r") @@ ("S" :> "s") @@ ("T" :> "t")
    @@ ("U" :> "u") @@ ("V" :> "v") @@ ("W" :> "w") @@ ("X" :> "x")
    @@ ("Y" :> "y") @@ ("Z" :> "z")

islower(c) == c \in DOMAIN ToUpper
isupper(c) == c \in DOMAIN ToLower
iscased(c) == islower(c) \/ isupper(c)

upper_ch(c) == IF islower(c) THEN ToUpper[c] ELSE c
lower_ch(c) == IF isupper(c) THEN ToLower[c] ELSE c

upper(s) == AsTuple([i \in 1..Len(s) |-> upper_ch(s[i])])
lower(s) == AsTuple([i \in 1..Len(s) |-> lower_ch(s[i])])

\* str.title(): a cased character is uppercased when the character before
\* it is uncased (or it is the first), lowercased otherwise.
title(s) == AsTuple([i \in 1..Len(s) |->
               IF ~iscased(s[i]) THEN s[i]
               ELSE IF i > 1 /\ iscased(s[i-1]) THEN lower_ch(s[i])
               ELSE upper_ch(s[i])])

SetMin(S) == CHOOSE m \in S : \A n \in S : m <= n
SetMax(S) == CHOOSE m \in S : \A n \in S : m >= n

strip(s) == LET keep == {i \in 1..Len(s) : s[i] \notin Whitespace}
            IN  IF keep = {} THEN <<>> ELSE SubSeq(s, SetMin(keep), SetMax(keep))

endswith(s, suf) == /\ Len(s) >= Len(suf)
                    /\ SubSeq(s, Len(s) - Len(suf) + 1, Len(s)) = suf

\* Python's "sub in s".
contains(s, sub) == \E i \in 0..(Len(s) - Len(sub)) :
                       SubSeq(s, i + 1, i + Len(sub)) = sub

\* str.replace(r'\.0$', '', regex=True): at most one suffix is removed.
replace_float_suffix(s) == IF endswith(s, <<".", "0">>)
                           THEN SubSeq(s, 1, Len(s) - 2)
                           ELSE s

---------------------------------------------------------------------------
(* Cells and tables.                                                       *)

NaN == <<"<NaN>">>          \* a missing value; no text equals it
NoCol == <<"<None>">>       \* get_col's None
Dash == <<"-">>

T_nan == <<"n","a","n">>

\* astype(str) on a cell.
astype_str(v) == IF v = NaN THEN T_nan ELSE v

None == [kind |-> "none", columns |-> <<>>, rows |-> <<>>]
EmptyFrame == [kind |-> "frame", columns |-> <<>>, rows |-> <<>>]   \* pd.DataFrame()

Frame(cols, rws) == [kind |-> "frame", columns |-> cols, rows |-> rws]

\* DataFrame.empty: no column or no row.
empty(df) == Len(df.columns) = 0 \/ Len(df.rows) = 0

\* The positions of the columns named col.
ColIdx(df, col) == {j \in 1..Len(df.columns) : df.columns[j] = col}

---------------------------------------------------------------------------
(* The literals of app.py, as texts.                                       *)

\* The string literals of clean: header tokens, the junk pattern's
\* alternatives, the keys and the values of brand_map.
CleanLit ==
    [link |-> <<"l","i","n","k">>,
     no |-> <<"n","o">>,
     id |-> <<"i","d">>,
     code |-> <<"c","o","d","e">>,
     mfg |-> <<"m","f","g">>,
     manufacturer |-> <<"m","a","n","u","f","a","c","t","u","r","e","r">>,
     brand |-> <<"b","r","a","n","d">>,
     none |-> <<"n","o","n","e">>,
     unknown |-> <<"u","n","k","n","o","w","n">>,
     undefined |-> <<"u","n","d","e","f","i","n","e","d">>,
     null |-> <<"n","u","l","l">>,
     nat |-> <<"n","a","t">>,
     zero |-> <<"0">>,
     DFROBOT |-> <<"D","F","R","O","B","O","T">>,
     DFR |-> <<"D","F","R">>,
     ADAFRUIT |-> <<"A","D","A","F","R","U","I","T">>,
     POLOLU |-> <<"P","O","L","O","L","U">>,
     SPARKFUN |-> <<"S","P","A","R","K","F","U","N">>,
     ARDUINO |-> <<"A","R","D","U","I","N","O">>,
     ESPRESSIF |-> <<"E","S","P","R","E","S","S","I","F">>,
     SEEED |-> <<"S","E","E","E","D">>,
     DFRobot |-> <<"D","F","R","o","b","o","t">>,
     Adafruit |-> <<"A","d","a","f","r","u","i","t">>,
     Pololu |-> <<"P","o","l","o","l","u">>,
     SparkFun |-> <<"S","p","a","r","k","F","u","n">>,
     Arduino |-> <<"A","r","d","u","i","n","o">>,
     Espressif |-> <<"E","s","p","r","e","s","s","i","f">>,
     Seeed_Studio |-> <<"S","e","e","e","d"," ","S","t","u","d","i","o">>]

\* The string literals of the loader and the views: sheet-name words,
\* candidate headers, the junk keys of the linker, status words, and the
\* names pandas gives (melt's "variable", merge's "_x" / "_y").
ViewLit ==
    [UNKNOWN |-> <<"U","N","K","N","O","W","N">>,
     NAN |-> <<"N","A","N">>,
     NONE |-> <<"N","O","N","E">>,
     NAT |-> <<"N","A","T">>,
     zero |-> <<"0">>,
     Component |-> <<"C","o","m","p","o","n","e","n","t">>,
     Set |-> <<"S","e","t">>,
     Delivery |-> <<"D","e","l","i","v","e","r","y">>,
     Project |-> <<"P","r","o","j","e","c","t">>,
     Considered |-> <<"C","o","n","s","i","d","e","r","e","d">>,
     MfgNo |-> <<"M","f","g","N","o">>,
     Mfg_No |-> <<"M","f","g"," ","N","o">>,
     PartNo |-> <<"P","a","r","t","N","o">>,
     Part_Number |-> <<"P","a","r","t"," ","N","u","m","b","e","r">>,
     Status |-> <<"S","t","a","t","u","s">>,
     Category |-> <<"C","a","t","e","g","o","r","y">>,
     variable |-> <<"v","a","r","i","a","b","l","e">>,
     sfx_x |-> <<"_","x">>,
     sfx_y |-> <<"_","y">>,
     Available |-> <<"A","v","a","i","l","a","b","l","e">>,
     Mfg |-> <<"M","f","g">>,
     Manufacturer |-> <<"M","a","n","u","f","a","c","t","u","r","e","r">>,
     Brand |-> <<"B","r","a","n","d">>,
     Name |-> <<"N","a","m","e">>,
     Description |-> <<"D","e","s","c","r","i","p","t","i","o","n">>,
     Component_Name |-> <<"C","o","m","p","o","n","e","n","t"," ","N","a","m","e">>,
     Set_No |-> <<"S","e","t"," ","N","o">>,
     Final_Status |-> <<"F","i","n","a","l"," ","S","t","a","t","u","s">>,
     xDesign_Name |-> <<"x","D","e","s","i","g","n"," ","N","a","m","e">>,
     Part_No |-> <<"P","a","r","t"," ","N","o">>,
     Released |-> <<"R","e","l","e","a","s","e","d">>,
     SubCategory |-> <<"S","u","b","C","a","t","e","g","o","r","y">>,
     SubCategory2 |-> <<"S","u","b","C","a","t","e","g","o","r","y","2">>,
     Unknown |-> <<"U","n","k","n","o","w","n">>]

---------------------------------------------------------------------------
(* load_data_v10.clean, step by step for one cell of column col.           *)

\* "# Skip Links": "link" in col.lower()
is_link_col(col) == contains(lower(col), CleanLit.link)

\* any(x in col.lower() for x in ['no', 'id', 'code', 'mfg'])
IdTokens == {CleanLit.no, CleanLit.id, CleanLit.code, CleanLit.mfg}
is_id_col(col) == \E x \in IdTokens : contains(lower(col), x)

\* c.lower() in ["mfg", "manufacturer", "brand"]
BrandHeaders == {CleanLit.mfg, CleanLit.manufacturer, CleanLit.brand}
is_brand_col(col) == lower(col) \in BrandHeaders

\* 1. Base conversion: astype(str).str.strip()
base_conversion(v) == strip(astype_str(v))

\* fix_float left out.
fix_float_skipped(s) == s

\* 2. Fix Float Strings
fix_float(s) == replace_float_suffix(s)

\* 3. Replace Junk: (?i)^(nan|none|unknown|undefined|null|nat|0)$
JunkPattern == {T_nan, CleanLit.none, CleanLit.unknown, CleanLit.undefined,
                CleanLit.null, CleanLit.nat, CleanLit.zero}

\* replace_junk with the pattern's (?i) flag lost.
replace_junk_case_sensitive(s) == IF s \in JunkPattern THEN Dash ELSE s

replace_junk(s) == IF lower(s) \in JunkPattern THEN Dash ELSE s

\* standardize_case testing col instead of col.lower().
standardize_case_raw_header(col, s) ==
    IF \E x \in IdTokens : contains(col, x) THEN upper(s) ELSE title(s)

\* 4. Standardize Case
standardize_case(col, s) == IF is_id_col(col) THEN upper(s) ELSE title(s)

\* 5. Brand Standardization: Series.replace(brand_map) replaces a value
\* that equals a key, letter for letter.
brand_map ==
    (CleanLit.DFROBOT :> CleanLit.DFRobot)
    @@ (CleanLit.DFR :> CleanLit.DFRobot)
    @@ (CleanLit.ADAFRUIT :> CleanLit.Adafruit)
    @@ (CleanLit.POLOLU :> CleanLit.Pololu)
    @@ (CleanLit.SPARKFUN :> CleanLit.SparkFun)
    @@ (CleanLit.ARDUINO :> CleanLit.Arduino)
    @@ (CleanLit.ESPRESSIF :> CleanLit.Espressif)
    @@ (CleanLit.SEEED :> CleanLit.Seeed_Studio)

brand_replace(s) == IF s \in DOMAIN brand_map THEN brand_map[s] ELSE s

brand_standardize(col, s) == IF is_brand_col(col) THEN brand_replace(s) ELSE s

\* The value clean leaves in a cell of column col that held v.
clean_cell(col, v) ==
    IF is_link_col(col) THEN v
    ELSE brand_standardize(col,
           standardize_case(col, replace_junk(fix_float(base_conversion(v)))))

\* df[col] is a DataFrame, not a Series, when several columns are named col,
\* and a DataFrame has no .str: the first loop raises AttributeError on a
\* non-link header that occurs twice.
clean_raises(df) ==
    /\ ~empty(df)
    /\ \E j \in 1..Len(df.columns) :
          /\ ~is_link_col(df.columns[j])
          /\ Cardinality(ColIdx(df, df.columns[j])) > 1

\* clean(df) where it does not raise: "if df.empty: return df", else every
\* cell of every column is rewritten in place and df is returned.
clean(df) ==
    IF empty(df) THEN df
    ELSE Frame(df.columns,
               AsTuple([r \in 1..Len(df.rows) |->
                  AsTuple([j \in 1..Len(df.columns) |->
                     clean_cell(df.columns[j], df.rows[r][j])])]))

---------------------------------------------------------------------------
(* Workbook contents the model draws from: headers and cell texts.          *)

\* Headers of the sheets.
Hdr ==
    [Mfg |-> <<"M","f","g">>,
     Manufacturer |-> <<"M","a","n","u","f","a","c","t","u","r","e","r">>,
     Brand |-> <<"B","r","a","n","d">>,
     Link |-> <<"L","i","n","k">>,
     Link_Id |-> <<"L","i","n","k"," ","I","d">>,
     Component_1 |-> <<"C","o","m","p","o","n","e","n","t"," ","1">>,
     Component_2 |-> <<"C","o","m","p","o","n","e","n","t"," ","2">>,
     MFGNO |-> <<"M","F","G","N","O">>,
     Name |-> <<"N","a","m","e">>,
     Set_No |-> <<"S","e","t"," ","N","o">>,
     Final_Status |-> <<"F","i","n","a","l"," ","S","t","a","t","u","s">>,
     MfgNo_sp |-> <<"M","f","g","N","o"," ">>,
     Status_sp |-> <<"S","t","a","t","u","s"," ">>,
     Component_3 |-> <<"C","o","m","p","o","n","e","n","t"," ","3">>,
     Component_4 |-> <<"C","o","m","p","o","n","e","n","t"," ","4">>]

\* Cell texts of the sheets.
Txt ==
    [zero |-> <<"0">>,
     None |-> <<"N","o","n","e">>,
     NaT |-> <<"N","a","T">>,
     Unknown |-> <<"U","n","k","n","o","w","n">>,
     NULL |-> <<"N","U","L","L">>,
     undefined |-> <<"u","n","d","e","f","i","n","e","d">>,
     dfr |-> <<"d","f","r">>,
     seeed |-> <<"s","e","e","e","d">>,
     Acme |-> <<"a","c","m","e">>,
     ABC_123 |-> <<"A","B","C","-","1","2","3">>,
     xyz999 |-> <<"x","y","z","9","9","9">>,
     f2095_0 |-> <<"2","0","9","5",".","0">>,
     f7_0_0 |-> <<"7",".","0",".","0">>,
     a_0 |-> <<"a",".","0">>,
     empty |-> <<>>,
     Backorder |-> <<"b","a","c","k","o","r","d","e","r">>,
     P1 |-> <<"P","1">>,
     P2 |-> <<"P","2">>,
     abc_123 |-> <<"a","b","c","-","1","2","3">>,
     available |-> <<"a","v","a","i","l","a","b","l","e">>,
     sensor |-> <<"s","e","n","s","o","r">>,
     motor |-> <<"m","o","t","o","r">>,
     Set_1 |-> <<"S","e","t"," ","1">>,
     Set_2 |-> <<"S","e","t"," ","2">>,
     released |-> <<"r","e","l","e","a","s","e","d">>,
     p1 |-> <<"p","1">>,
     p2 |-> <<"p","2">>,
     a |-> <<"a">>,
     ab |-> <<"a","b">>,
     p3 |-> <<"p","3">>]

\* Sheet names.
SheetName ==
    [Components |-> <<"C","o","m","p","o","n","e","n","t","s">>,
     Delivery_Sets |-> <<"D","e","l","i","v","e","r","y"," ","S","e","t","s">>,
     Projects_Considered |-> <<"P","r","o","j","e","c","t","s"," ","C","o","n","s","i","d","e","r","e","d">>,
     Sheet1 |-> <<"S","h","e","e","t","1">>]

Alphabet == {"a", "B", "0", ".", " "}

\* Every text over Alphabet of at most MaxLen characters.
GenTexts == UNION {[1..n -> Alphabet] : n \in 0..MaxLen}

NamedTexts == {T_nan, Txt.None, Txt.NaT, Txt.Unknown, Txt.NULL, Txt.undefined, Dash,
               Txt.dfr, CleanLit.DFR, CleanLit.DFRobot, Txt.seeed, CleanLit.Seeed_Studio, Txt.Acme,
               Txt.ABC_123, Txt.xyz999, Txt.f2095_0, Txt.f7_0_0}

RawCells == GenTexts \cup NamedTexts \cup {NaN}

CleanHeaders == {ViewLit.MfgNo, ViewLit.Mfg_No, ViewLit.PartNo, ViewLit.Part_Number, Hdr.Mfg,
                 Hdr.Manufacturer, Hdr.Brand, Hdr.Link, Hdr.Link_Id, ViewLit.Status,
                 Hdr.Component_1}

SmallHeaders == {Hdr.Mfg, Hdr.Link, ViewLit.Status}
SmallCells == {NaN, Txt.dfr, Txt.a_0}

\* The tables handed to clean: one cell of any header and content, a table
\* without rows, and two-by-two tables (a header may occur twice).
CleanInputs ==
    {Frame(<<h>>, <<<<v>>>>) : h \in CleanHeaders, v \in RawCells}
    \cup {Frame(<<h>>, <<>>) : h \in CleanHeaders}
    \cup {Frame(<<h1, h2>>, <<<<a, b>>, <<c, d>>>>) :
            h1 \in SmallHeaders, h2 \in SmallHeaders,
            a \in SmallCells, b \in SmallCells,
            c \in SmallCells, d \in SmallCells}

---------------------------------------------------------------------------
(* The application at rest: what the variables hold before the first run.  *)

NoFile == [exists |-> FALSE, readable |-> FALSE, sheets |-> <<>>]
NoSelection == NoCol
NoneTriple == <<None, None, None>>
NoEntry == [filled |-> FALSE, value |-> NoneTriple]
NoKpi == [total |-> 0, good |-> 0, pct |-> 0]
NoRun == [status |-> "idle", diag |-> "", view |-> "none",
          bom |-> <<>>, df_bom |-> None, df_filtered |-> None,
          df_sun |-> None, kpi |-> NoKpi]

\* The widgets as first rendered: a multiselect is "all" while it holds its
\* default (every option) and a set of values once the user chose; a search
\* box is empty.
AllOptions == [all |-> TRUE, vals |-> {}]
Chosen(S) == [all |-> FALSE, vals |-> S]
NoFilters == [sel_stat |-> AllOptions, sel_cat |-> AllOptions, search_inv |-> <<>>,
              selected_sets |-> {}, search_del |-> <<>>]
NoHist == [execs |-> 0, event |-> "start", source |-> NoFile]

AppAtRest ==
    /\ workbook = NoFile
    /\ cache = NoEntry
    /\ df_components = None /\ df_sets = None /\ df_projects = None
    /\ page = "Inventory Overview"
    /\ selected_proj = NoSelection
    /\ filters = NoFilters
    /\ run = NoRun
    /\ hist = NoHist

---------------------------------------------------------------------------
(* clean as a function: the harness calls it on a table, then again on     *)
(* what it returned.                                                       *)

InitClean ==
    /\ AppAtRest
    /\ h_df \in CleanInputs
    /\ h_cands = <<>>
    /\ h_ret = <<>>
    /\ h_pc = "clean"

\* The table the next call of clean is given.
CleanArg == IF h_ret = <<>> THEN h_df ELSE h_ret[Len(h_ret)]

CleanCall ==
    /\ h_pc = "clean"
    /\ Len(h_ret) < MaxPasses
    /\ ~clean_raises(CleanArg)
    /\ h_ret' = Append(h_ret, clean(CleanArg))
    /\ UNCHANGED <<h_df, h_cands, h_pc>>
    /\ UNCHANGED appVars

CleanRaise ==
    /\ h_pc = "clean"
    /\ clean_raises(CleanArg)
    /\ h_pc' = "raised"
    /\ UNCHANGED <<h_df, h_cands, h_ret>>
    /\ UNCHANGED appVars

NextClean == CleanCall \/ CleanRaise

SpecClean == InitClean /\ [][NextClean]_vars

\* The harness has cleaned h_df at least once.
Cleaned == h_pc = "clean" /\ Len(h_ret) >= 1

\* The cells of the table: (row, column) positions.
Cells(df) == (1..Len(df.rows)) \X (1..Len(df.columns))

---------------------------------------------------------------------------
(* Claims about clean.                                                     *)

\* The table clean returned first, and the one it was given.
Once == h_ret[1]

\* C1: clean is idempotent: cleaning the table clean returned gives that
\* table again, cell for cell: clean(clean(T)) = clean(T).
C1_Idempotent ==
    (h_pc = "clean" /\ Len(h_ret) >= 2) => h_ret[2] = h_ret[1]

\* A cell text is fully uppercase / title-cased when the case transform
\* leaves it as it is.
IsUpperText(s) == s = upper(s)
IsTitleText(s) == s = title(s)

HeaderHasIdToken(col) ==
    \E x \in {CleanLit.no, CleanLit.id, CleanLit.code, CleanLit.mfg} : contains(lower(col), x)
HeaderIsLink(col) == contains(lower(col), CleanLit.link)

CanonicalBrands == {CleanLit.DFRobot, CleanLit.Adafruit, CleanLit.Pololu,
                    CleanLit.SparkFun, CleanLit.Arduino, CleanLit.Espressif,
                    CleanLit.Seeed_Studio}

\* C5 as stated: after cleaning, every cell of a column whose header
\* contains "no", "id", "code" or "mfg" is fully uppercase, and every cell
\* of every other non-link column is title-cased.
C5_CasePolicyAsStated ==
    Cleaned =>
      \A c \in Cells(Once) :
        LET col == Once.columns[c[2]]
            v   == Once.rows[c[1]][c[2]]
        IN  /\ HeaderHasIdToken(col) => IsUpperText(v)
            /\ (~HeaderHasIdToken(col) /\ ~HeaderIsLink(col)) => IsTitleText(v)

\* C5 amended: after cleaning, every cell of a non-link column whose header
\* contains "no", "id", "code" or "mfg" is fully uppercase, or, when the
\* lowercased header is exactly "mfg", a canonical brand name; every cell of
\* every other non-link column is title-cased.
C5_CasePolicy ==
    Cleaned =>
      \A c \in Cells(Once) :
        LET col == Once.columns[c[2]]
            v   == Once.rows[c[1]][c[2]]
        IN  /\ (HeaderHasIdToken(col) /\ ~HeaderIsLink(col)) =>
                  \/ IsUpperText(v)
                  \/ (lower(col) = CleanLit.mfg /\ v \in CanonicalBrands)
            /\ (~HeaderHasIdToken(col) /\ ~HeaderIsLink(col)) => IsTitleText(v)

\* C5 witness: a lowercase cell of a "PartNo" column came out uppercase, and
\* a "Mfg" cell came out as a canonical brand.
C5_Witness ==
    /\ Cleaned
    /\ \/ /\ h_df.columns = <<ViewLit.PartNo>>
          /\ h_df.rows = <<<<Txt.xyz999>>>>
          /\ Once.rows[1][1] = upper(Txt.xyz999)
       \/ /\ h_df.columns = <<Hdr.Mfg>>
          /\ h_df.rows = <<<<Txt.dfr>>>>
          /\ Once.rows[1][1] = CleanLit.DFRobot

\* The alias table of the claim: alias, in any letter case, to brand.
AliasOf(s) ==
    CASE upper(s) = CleanLit.DFROBOT   -> CleanLit.DFRobot
      [] upper(s) = CleanLit.DFR       -> CleanLit.DFRobot
      [] upper(s) = CleanLit.ADAFRUIT  -> CleanLit.Adafruit
      [] upper(s) = CleanLit.POLOLU    -> CleanLit.Pololu
      [] upper(s) = CleanLit.SPARKFUN  -> CleanLit.SparkFun
      [] upper(s) = CleanLit.ARDUINO   -> CleanLit.Arduino
      [] upper(s) = CleanLit.ESPRESSIF -> CleanLit.Espressif
      [] upper(s) = CleanLit.SEEED     -> CleanLit.Seeed_Studio
      [] OTHER                  -> s

\* C6: in every column whose lowercased header is exactly "mfg",
\* "manufacturer" or "brand", a cell whose text is a brand alias in any
\* letter case is replaced by its canonical brand name.
C6_BrandCanonical ==
    Cleaned =>
      \A c \in Cells(Once) :
        LET col == Once.columns[c[2]]
            raw == h_df.rows[c[1]][c[2]]
        IN  (lower(col) \in {CleanLit.mfg, CleanLit.manufacturer, CleanLit.brand}
             /\ raw # NaN /\ AliasOf(raw) # raw)
            => Once.rows[c[1]][c[2]] = AliasOf(raw)

PlaceholderTokens == {T_nan, CleanLit.none, CleanLit.unknown, CleanLit.undefined,
                      CleanLit.null, CleanLit.nat, CleanLit.zero}
IsPlaceholder(v) == v = NaN \/ lower(v) \in PlaceholderTokens

\* C7 as stated: after cleaning no cell holds a raw null or a placeholder,
\* and every cell that was null or a placeholder text holds exactly "-".
C7_NoPlaceholderAsStated ==
    Cleaned =>
      \A c \in Cells(Once) :
        /\ ~IsPlaceholder(Once.rows[c[1]][c[2]])
        /\ IsPlaceholder(h_df.rows[c[1]][c[2]]) => Once.rows[c[1]][c[2]] = Dash

\* C7 amended: after cleaning no cell of a non-link column holds a raw null
\* or a placeholder, and every cell of a non-link column that was null or a
\* placeholder text holds exactly "-".
C7_NoPlaceholder ==
    Cleaned =>
      \A c \in Cells(Once) :
        ~HeaderIsLink(Once.columns[c[2]]) =>
          /\ ~IsPlaceholder(Once.rows[c[1]][c[2]])
          /\ IsPlaceholder(h_df.rows[c[1]][c[2]]) => Once.rows[c[1]][c[2]] = Dash

\* C7 witness: a null cell and a cell "None" of a non-link column were
\* cleaned to "-".
C7_Witness ==
    /\ Cleaned
    /\ h_df.columns = <<ViewLit.Status>>
    /\ Len(h_df.rows) = 1
    /\ h_df.rows[1][1] \in {NaN, Txt.None}
    /\ Once.rows[1][1] = Dash

---------------------------------------------------------------------------
(* get_col, the column resolver.                                           *)

\* col_map = {c.lower(): c for c in df.columns}, looked up at key k: of the
\* headers with lowercase form k the last one stays in the dict; NoCol when
\* there is none.
col_map(df, k) ==
    LET js == {j \in 1..Len(df.columns) : lower(df.columns[j]) = k}
    IN  IF js = {} THEN NoCol ELSE df.columns[SetMax(js)]

\* get_col returning the first header, in column order, that matches any
\* candidate.
get_col_by_column_order(df, candidates) ==
    IF df = None \/ empty(df) THEN NoCol
    ELSE LET hits == {j \in 1..Len(df.columns) :
                        \E i \in 1..Len(candidates) :
                           lower(candidates[i]) = lower(df.columns[j])}
         IN  IF hits = {} THEN NoCol ELSE df.columns[SetMin(hits)]

get_col(df, candidates) ==
    IF df = None \/ empty(df) THEN NoCol
    ELSE LET hits == {i \in 1..Len(candidates) :
                        col_map(df, lower(candidates[i])) # NoCol}
         IN  IF hits = {} THEN NoCol
             ELSE col_map(df, lower(candidates[SetMin(hits)]))

\* The candidate lists of the views.
MfgNoCandidates == <<ViewLit.MfgNo, ViewLit.Mfg_No, ViewLit.PartNo, ViewLit.Part_Number>>
StatusCandidates == <<ViewLit.Status>>

---------------------------------------------------------------------------
(* get_col as a function: the harness calls it on a table and a candidate  *)
(* list, then on the same table with two of its columns exchanged.         *)

ResolveHeaders == {ViewLit.MfgNo, Hdr.MFGNO, ViewLit.Part_Number, ViewLit.Status}
ResolveCands == {ViewLit.MfgNo, ViewLit.Part_Number, ViewLit.Category}

HeaderLists == UNION {[1..n -> ResolveHeaders] : n \in 0..MaxHeaders}
CandLists == UNION {[1..n -> ResolveCands] : n \in 0..MaxCands}

\* One row of dashes under the headers.
DashRow(cols) == [j \in 1..Len(cols) |-> Dash]

ResolveTables ==
    {Frame(hs, <<DashRow(hs)>>) : hs \in HeaderLists}
    \cup {Frame(hs, <<>>) : hs \in {h \in HeaderLists : Len(h) <= 1}}
    \cup {None}

InitResolve ==
    /\ AppAtRest
    /\ h_df \in ResolveTables
    /\ h_cands \in CandLists \cup {MfgNoCandidates}
    /\ h_ret = <<>>
    /\ h_pc = "get_col"

\* df with its columns a and b exchanged.
SwapColumns(df, a, b) ==
    LET sw(row) == AsTuple([j \in 1..Len(row) |->
                      IF j = a THEN row[b] ELSE IF j = b THEN row[a] ELSE row[j]])
    IN  Frame(sw(df.columns), AsTuple([r \in 1..Len(df.rows) |-> sw(df.rows[r])]))

GetColCall ==
    /\ h_pc = "get_col"
    /\ h_ret = <<>>
    /\ h_ret' = <<[df |-> h_df, ret |-> get_col(h_df, h_cands)]>>
    /\ UNCHANGED <<h_df, h_cands, h_pc>>
    /\ UNCHANGED appVars

GetColReordered ==
    /\ h_pc = "get_col"
    /\ Len(h_ret) = 1
    /\ h_df # None
    /\ \E a \in 1..Len(h_df.columns), b \in 1..Len(h_df.columns) :
          /\ a < b
          /\ LET df2 == SwapColumns(h_df, a, b)
             IN  h_ret' = Append(h_ret, [df |-> df2, ret |-> get_col(df2, h_cands)])
    /\ UNCHANGED <<h_df, h_cands, h_pc>>
    /\ UNCHANGED appVars

NextResolve == GetColCall \/ GetColReordered

SpecResolve == InitResolve /\ [][NextResolve]_vars

---------------------------------------------------------------------------
(* Claims about get_col.                                                   *)

\* The candidates that match a header of df case-insensitively.
Matching(df, cands) ==
    {i \in 1..Len(cands) :
       \E j \in 1..Len(df.columns) : lower(df.columns[j]) = lower(cands[i])}

AbsentOrEmpty(df) == df = None \/ Len(df.columns) = 0 \/ Len(df.rows) = 0

\* What the claim asks of one call: a header of the table matching the
\* earliest matching candidate, and no-match exactly when nothing matches
\* or the table is absent or empty.
ResolvesEarliest(call) ==
    IF AbsentOrEmpty(call.df) \/ Matching(call.df, h_cands) = {}
    THEN call.ret = NoCol
    ELSE /\ \E j \in 1..Len(call.df.columns) : call.df.columns[j] = call.ret
         /\ lower(call.ret) = lower(h_cands[SetMin(Matching(call.df, h_cands))])

\* C8 as stated: get_col returns the actual header matching the earliest
\* matching candidate, independent of the order of the table's columns, and
\* no-match when nothing matches or the table is absent or empty.
C8_ResolverAsStated ==
    h_pc = "get_col" =>
      /\ \A k \in 1..Len(h_ret) : ResolvesEarliest(h_ret[k])
      /\ Len(h_ret) = 2 => h_ret[2].ret = h_ret[1].ret

\* Two headers of df differ only in letter case.
CaseVariants(df) ==
    \E i, j \in 1..Len(df.columns) :
       /\ df.columns[i] # df.columns[j]
       /\ lower(df.columns[i]) = lower(df.columns[j])

\* C8 amended: get_col returns an actual header matching the earliest
\* matching candidate (the last such header in column order when several
\* headers differ only in letter case), and no-match when nothing matches or
\* the table is absent or empty; which candidate wins is independent of the
\* column order, and so is the returned header unless two headers differ
\* only in letter case.
C8_Resolver ==
    h_pc = "get_col" =>
      /\ \A k \in 1..Len(h_ret) :
            /\ ResolvesEarliest(h_ret[k])
            /\ h_ret[k].ret # NoCol =>
                 \A j \in 1..Len(h_ret[k].df.columns) :
                    lower(h_ret[k].df.columns[j]) = lower(h_ret[k].ret) =>
                       \E i \in j..Len(h_ret[k].df.columns) :
                          h_ret[k].df.columns[i] = h_ret[k].ret
      /\ Len(h_ret) = 2 =>
            /\ lower(h_ret[2].ret) = lower(h_ret[1].ret)
            /\ ~CaseVariants(h_df) => h_ret[2].ret = h_ret[1].ret

\* C8 witness: headers ["Part Number", "MfgNo"] and candidates
\* ["MfgNo", "Part Number"] resolve to "MfgNo", also with the two columns
\* exchanged.
C8_Witness ==
    /\ h_pc = "get_col"
    /\ h_df.columns = <<ViewLit.Part_Number, ViewLit.MfgNo>>
    /\ h_cands = <<ViewLit.MfgNo, ViewLit.Part_Number>>
    /\ Len(h_ret) = 2
    /\ h_ret[1].ret = ViewLit.MfgNo
    /\ h_ret[2].ret = ViewLit.MfgNo

---------------------------------------------------------------------------
(* load_data_v10: the sheet loader, the header normalizer and clean, inside *)
(* one try / except.                                                        *)

\* A header that is not a str (a number in the header row): c.strip()
\* raises AttributeError on it.
IntHeader == <<"<int>">>

\* next((i for s in xls.sheet_names if P(s)), 0): the first sheet whose name
\* satisfies P, 0 when there is none.
FirstSheet(wb, P(_)) ==
    LET hits == {i \in 1..Len(wb.sheets) : P(wb.sheets[i].name)}
    IN  IF hits = {} THEN 0 ELSE SetMin(hits)

IsCompName(n) == contains(n, ViewLit.Component)
IsSetDeliveryName(n) == contains(n, ViewLit.Set) /\ contains(n, ViewLit.Delivery)
IsDeliveryName(n) == contains(n, ViewLit.Delivery)
IsProjName(n) == contains(n, ViewLit.Project) /\ contains(n, ViewLit.Considered)

\* comp_sheet: the first sheet named like "Component", else sheet_names[0].
comp_sheet(wb) == IF FirstSheet(wb, IsCompName) # 0
                  THEN FirstSheet(wb, IsCompName) ELSE 1

set_sheet(wb) == IF FirstSheet(wb, IsSetDeliveryName) # 0
                 THEN FirstSheet(wb, IsSetDeliveryName)
                 ELSE FirstSheet(wb, IsDeliveryName)

proj_sheet(wb) == FirstSheet(wb, IsProjName)

\* pd.read_excel of sheet i; pd.DataFrame() for a sheet that was not found.
read_sheet(wb, i) == IF i = 0 THEN EmptyFrame ELSE wb.sheets[i].table

\* "# Clean Headers": df.columns = [c.strip() for c in df.columns] on a
\* table that is not empty.
clean_headers_raises(df) ==
    ~empty(df) /\ \E j \in 1..Len(df.columns) : df.columns[j] = IntHeader

clean_headers(df) ==
    IF empty(df) THEN df
    ELSE Frame(AsTuple([j \in 1..Len(df.columns) |-> strip(df.columns[j])]), df.rows)

\* The three tables as read and header-stripped.
raw_tables(wb) == <<clean_headers(read_sheet(wb, comp_sheet(wb))),
                    clean_headers(read_sheet(wb, set_sheet(wb))),
                    clean_headers(read_sheet(wb, proj_sheet(wb)))>>

\* Whether the body of the try raises: pd.ExcelFile on an unreadable file,
\* sheet_names[0] of a workbook without sheets, strip of a header that is
\* no str, clean on a repeated header.
try_raises(wb) ==
    \/ ~wb.readable
    \/ Len(wb.sheets) = 0
    \/ \E i \in {comp_sheet(wb), set_sheet(wb), proj_sheet(wb)} :
          clean_headers_raises(read_sheet(wb, i))
    \/ LET t == raw_tables(wb)
       IN  \E k \in 1..3 : clean_raises(t[k])

\* What the try returns when nothing raises.
try_value(wb) == LET t == raw_tables(wb)
                 IN  <<clean(t[1]), clean(t[2]), clean(t[3])>>

\* load_data_v10 with the header cleaning outside the try: a header that is
\* no str escapes as an exception.
load_data_v10_headers_outside_try(wb) ==
    IF ~wb.exists THEN [raised |-> FALSE, value |-> NoneTriple]
    ELSE IF wb.readable /\ Len(wb.sheets) > 0
            /\ \E i \in {comp_sheet(wb), set_sheet(wb), proj_sheet(wb)} :
                  clean_headers_raises(read_sheet(wb, i))
         THEN [raised |-> TRUE, value |-> NoneTriple]
    ELSE IF try_raises(wb) THEN [raised |-> FALSE, value |-> NoneTriple]
    ELSE [raised |-> FALSE, value |-> try_value(wb)]

\* load_data_v10(): raised says whether an exception leaves the function,
\* value is the tuple it returns.
load_data_v10(wb) ==
    IF ~wb.exists THEN [raised |-> FALSE, value |-> NoneTriple]
    ELSE IF try_raises(wb) THEN [raised |-> FALSE, value |-> NoneTriple]
    ELSE [raised |-> FALSE, value |-> try_value(wb)]

---------------------------------------------------------------------------
(* Dashboard 3, the Project Explorer: melt, key normalization, junk filter *)
(* and the left join against the components.                               *)

\* The elements of a set of numbers, ascending.
Ascending(S) ==
    AsTuple([i \in 1..Cardinality(S) |->
               CHOOSE x \in S : Cardinality({y \in S : y < x}) = i - 1])

\* comp_cols = [c for c in df_projects.columns if "Component" in c]
comp_cols(dfp) ==
    Ascending({j \in 1..Len(dfp.columns) : contains(dfp.columns[j], ViewLit.Component)})

\* all_projects: the values of the first column, as str.
all_projects(dfp) ==
    IF dfp = None \/ empty(dfp) THEN {}
    ELSE {astype_str(dfp.rows[r][1]) : r \in 1..Len(dfp.rows)}

\* proj_row = df_projects[df_projects[p_name_col] == selected_proj]
proj_row(dfp, sel) ==
    Ascending({r \in 1..Len(dfp.rows) : dfp.rows[r][1] = sel})

\* proj_row.melt(id_vars=[p_name_col], value_vars=comp_cols,
\* value_name="MfgNo"): for each slot column in turn, one row per project row.
melt(dfp, sel) ==
    LET cc == comp_cols(dfp)
        rr == proj_row(dfp, sel)
    IN  AsTuple([n \in 1..(Len(cc) * Len(rr)) |->
           LET j == cc[((n - 1) \div Len(rr)) + 1]
               r == rr[((n - 1) % Len(rr)) + 1]
           IN  [proj     |-> dfp.rows[r][1],
                variable |-> dfp.columns[j],
                MfgNo    |-> dfp.rows[r][j]]])

\* .dropna()
NotNa(b) == b.proj # NaN /\ b.MfgNo # NaN
dropna(bom) == SelectSeq(bom, NotNa)

\* "KEY FIX": astype(str).str.strip().str.upper(), then the "\.0$" strip.
linker_normalize(v) == replace_float_suffix(upper(strip(astype_str(v))))

normalize_keys(bom) ==
    AsTuple([n \in 1..Len(bom) |->
               [bom[n] EXCEPT !.MfgNo = linker_normalize(bom[n].MfgNo)]])

JunkKeys == {Dash, ViewLit.UNKNOWN, ViewLit.NAN, ViewLit.NONE, ViewLit.NAT,
             ViewLit.zero}

\* bom_keep with "len() > 1" written as "len() > 0".
bom_keep_len_0(b) == Len(b.MfgNo) > 0 /\ b.MfgNo \notin JunkKeys

\* "# Filter junk"
bom_keep(b) == Len(b.MfgNo) > 1 /\ b.MfgNo \notin JunkKeys

filter_junk(bom) == SelectSeq(bom, bom_keep)

\* The bom table handed to the merge.
build_bom(dfp, sel) == filter_junk(normalize_keys(dropna(melt(dfp, sel))))

\* The column names of pd.merge(bom, df_components, left_on="MfgNo",
\* right_on=key): a name on both sides gets "_x" / "_y", except a join key
\* of one name on both sides, which is kept once.
merge_columns(p_name_col, dfc, key) ==
    LET left  == <<p_name_col, ViewLit.variable, ViewLit.MfgNo>>
        right == dfc.columns
        shared(n) == key = ViewLit.MfgNo /\ n = ViewLit.MfgNo
        inLeft(n)  == \E i \in 1..3 : left[i] = n
        inRight(n) == \E j \in 1..Len(right) : right[j] = n
        keep  == Ascending({j \in 1..Len(right) : ~shared(right[j])})
    IN  AsTuple([i \in 1..3 |-> IF inRight(left[i]) /\ ~shared(left[i])
                                THEN left[i] \o ViewLit.sfx_x ELSE left[i]])
        \o AsTuple([k \in 1..Len(keep) |-> IF inLeft(right[keep[k]])
                                            THEN right[keep[k]] \o ViewLit.sfx_y
                                            ELSE right[keep[k]]])

\* The rows the merge gives for one bom row: one per component row whose
\* key equals it, or one with every component attribute missing, which
\* fillna("-") turns into "-".
merge_rows_of(b, dfc, key) ==
    LET kj    == SetMin(ColIdx(dfc, key))
        keep  == Ascending({j \in 1..Len(dfc.columns) :
                              ~(key = ViewLit.MfgNo /\ dfc.columns[j] = ViewLit.MfgNo)})
        hits  == Ascending({r \in 1..Len(dfc.rows) : dfc.rows[r][kj] = b.MfgNo})
        left  == <<b.proj, b.variable, b.MfgNo>>
    IN  IF Len(hits) = 0
        THEN <<left \o [k \in 1..Len(keep) |-> Dash]>>
        ELSE AsTuple([h \in 1..Len(hits) |->
                left \o [k \in 1..Len(keep) |->
                           IF dfc.rows[hits[h]][keep[k]] = NaN THEN Dash
                           ELSE dfc.rows[hits[h]][keep[k]]]])

RECURSIVE merge_rows(_, _, _)
merge_rows(bom, dfc, key) ==
    IF bom = <<>> THEN <<>>
    ELSE merge_rows_of(Head(bom), dfc, key) \o merge_rows(Tail(bom), dfc, key)

\* df_bom = pd.merge(..., how="left").fillna("-")
merge_left(bom, p_name_col, dfc, key) ==
    Frame(merge_columns(p_name_col, dfc, key), merge_rows(bom, dfc, key))

\* str.contains(word, case=False) on a cell.
contains_nocase(v, word) == v # NaN /\ contains(lower(v), lower(word))

\* pct_of reporting an empty table as fully ready.
pct_of_empty_is_full(good, total) ==
    IF total > 0 THEN (good * 100) \div total ELSE 100

\* int((good / total) * 100) if total > 0 else 0
pct_of(good, total) == IF total > 0 THEN (good * 100) \div total ELSE 0

\* The KPIs of the joined table.
bom_kpi(df_bom, c_status) ==
    LET total == Len(df_bom.rows)
        sj    == ColIdx(df_bom, c_status)
        good  == IF sj = {} THEN 0
                 ELSE Cardinality({r \in 1..total :
                        contains_nocase(df_bom.rows[r][SetMin(sj)], ViewLit.Available)})
    IN  [total |-> total, good |-> good,
         pct |-> IF sj = {} THEN 0 ELSE pct_of(good, total)]

\* The Project Explorer branch of the script.
project_explorer(dfc, dfp, sel) ==
    IF dfp = None \/ empty(dfp)
    THEN [NoRun EXCEPT !.status = "halted", !.view = "Project Explorer",
                       !.diag = "'Projects Considered' sheet not found"]
    ELSE IF sel = NoSelection \/ sel = <<>>
    THEN [NoRun EXCEPT !.status = "rendered", !.view = "Project Explorer",
                       !.diag = "Please select a project"]
    ELSE LET bom == build_bom(dfp, sel)
             key == get_col(dfc, MfgNoCandidates)
         IN  IF key = NoCol
             THEN [NoRun EXCEPT !.status = "rendered", !.view = "Project Explorer",
                                !.bom = bom,
                                !.diag = "Could not link Project Data to Inventory"]
             ELSE LET df_bom == merge_left(bom, dfp.columns[1], dfc, key)
                  IN  [NoRun EXCEPT !.status = "rendered",
                                    !.view = "Project Explorer",
                                    !.bom = bom, !.df_bom = df_bom,
                                    !.kpi = bom_kpi(df_bom, get_col(dfc, StatusCandidates))]

---------------------------------------------------------------------------
(* Dashboards 1 and 2: filters, search and the KPIs.                       *)

\* The values of column col, as the multiselect offers them.
unique(df, col) == {df.rows[r][SetMin(ColIdx(df, col))] : r \in 1..Len(df.rows)}

\* df[df[col].isin(sel)] on a table whose shown rows are keep.
isin(df, keep, col, sel) ==
    {r \in keep : df.rows[r][SetMin(ColIdx(df, col))] \in sel}

\* The rows where one of the target columns contains term
\* (str.contains(term, case=False)); no row when there is no target.
search_mask(df, keep, targets, term) ==
    {r \in keep : \E t \in targets :
        contains_nocase(astype_str(df.rows[r][SetMin(ColIdx(df, t))]), term)}

\* The table of the rows keep.
take(df, keep) ==
    LET idx == Ascending(keep)
    IN  Frame(df.columns, AsTuple([i \in 1..Len(idx) |-> df.rows[idx[i]]]))

count_contains(df, keep, col, word) ==
    Cardinality({r \in keep :
        contains_nocase(df.rows[r][SetMin(ColIdx(df, col))], word)})

\* df_sun: a copy of df_filtered whose c_cat cells "-" read "Unknown", and
\* whose c_sub2 cells, when the column exists and holds a value, have their
\* missing values filled with "-".
sunburst(df_filtered, c_cat, c_sub2) ==
    LET cj == SetMin(ColIdx(df_filtered, c_cat))
        sj == IF c_sub2 = NoCol THEN 0 ELSE SetMin(ColIdx(df_filtered, c_sub2))
        fill == sj # 0 /\ \E r \in 1..Len(df_filtered.rows) :
                             df_filtered.rows[r][sj] # NaN
    IN  Frame(df_filtered.columns,
              AsTuple([r \in 1..Len(df_filtered.rows) |->
                 AsTuple([j \in 1..Len(df_filtered.columns) |->
                    LET v == df_filtered.rows[r][j]
                    IN  IF j = cj /\ v = Dash THEN ViewLit.Unknown
                        ELSE IF fill /\ j = sj /\ v = NaN THEN Dash
                        ELSE v])]))

\* The Inventory Overview branch of the script.
inventory_overview(dfc, f) ==
    LET c_cat    == get_col(dfc, <<ViewLit.Category>>)
        c_sub1   == get_col(dfc, <<ViewLit.SubCategory>>)
        c_sub2   == get_col(dfc, <<ViewLit.SubCategory2>>)
        c_status == get_col(dfc, StatusCandidates)
        c_brand  == get_col(dfc, <<ViewLit.Mfg, ViewLit.Manufacturer, ViewLit.Brand>>)
        c_mfg_no == get_col(dfc, MfgNoCandidates)
        c_name   == get_col(dfc, <<ViewLit.Name, ViewLit.Description, ViewLit.Component_Name>>)
        all      == 1..Len(dfc.rows)
        k1 == IF c_status # NoCol /\ ~f.sel_stat.all /\ f.sel_stat.vals # {}
              THEN isin(dfc, all, c_status, f.sel_stat.vals) ELSE all
        k2 == IF c_cat # NoCol /\ ~f.sel_cat.all /\ f.sel_cat.vals # {}
              THEN isin(dfc, k1, c_cat, f.sel_cat.vals) ELSE k1
        k3 == IF f.search_inv # <<>>
              THEN search_mask(dfc, k2, {c_mfg_no, c_name, c_brand} \ {NoCol},
                               strip(f.search_inv))
              ELSE k2
        total == Cardinality(k3)
        avail == IF c_status # NoCol
                 THEN count_contains(dfc, k3, c_status, ViewLit.Available) ELSE 0
    IN  [NoRun EXCEPT !.status = "rendered", !.view = "Inventory Overview",
                      !.df_filtered = take(dfc, k3),
                      !.df_sun = IF c_cat # NoCol /\ c_sub1 # NoCol /\ k3 # {}
                                 THEN sunburst(take(dfc, k3), c_cat, c_sub2)
                                 ELSE None,
                      !.kpi = [total |-> total, good |-> avail,
                               pct |-> pct_of(avail, total)]]

\* The Delivery Tracking branch of the script.
delivery_tracking(dfs, f) ==
    LET s_set    == get_col(dfs, <<ViewLit.Set_No, ViewLit.Set>>)
        s_status == get_col(dfs, <<ViewLit.Final_Status, ViewLit.Status>>)
        s_name   == get_col(dfs, <<ViewLit.xDesign_Name, ViewLit.Name, ViewLit.Description,
                                   ViewLit.Component_Name>>)
        s_mfg    == get_col(dfs, <<ViewLit.Mfg_No, ViewLit.MfgNo, ViewLit.Part_No>>)
        all      == 1..Len(dfs.rows)
        k1 == IF f.selected_sets # {}
              THEN isin(dfs, all, s_set, f.selected_sets) ELSE all
        k2 == IF f.search_del # <<>>
              THEN search_mask(dfs, k1, {s_name, s_mfg, s_status} \ {NoCol},
                               f.search_del)
              ELSE k1
        total    == Cardinality(k2)
        released == count_contains(dfs, k2, s_status, ViewLit.Released)
    IN  IF empty(dfs) \/ s_set = NoCol \/ s_status = NoCol
        THEN [NoRun EXCEPT !.status = "halted", !.view = "Delivery Tracking",
                           !.diag = "Delivery Data Missing"]
        ELSE [NoRun EXCEPT !.status = "rendered", !.view = "Delivery Tracking",
                           !.df_filtered = take(dfs, k2),
                           !.kpi = [total |-> total, good |-> released,
                                    pct |-> pct_of(released, total)]]

---------------------------------------------------------------------------
(* The script, the cache and the user's actions.                           *)

Pages == {"Inventory Overview", "Delivery Tracking", "Project Explorer"}

\* Lines 237-241 and the page branches: what one run of the script shows,
\* given the tuple load_data_v10 returned.
script(value, p, sel, f) ==
    IF value[1] = None
    THEN [NoRun EXCEPT !.status = "halted", !.diag = "File not found"]
    ELSE CASE p = "Inventory Overview" -> inventory_overview(value[1], f)
           [] p = "Delivery Tracking"  -> delivery_tracking(value[2], f)
           [] p = "Project Explorer"   -> project_explorer(value[1], value[3], sel)

\* tables_after with the Inventory Overview filtering df_components itself.
tables_after_in_place(value, p, f) ==
    IF value[1] # None /\ p = "Inventory Overview"
    THEN <<inventory_overview(value[1], f).df_filtered, value[2], value[3]>>
    ELSE value

\* The module-level tables as the page branch leaves them: every view
\* writes to what it derived (df_components.copy(), df_filtered.copy(),
\* df_sets.copy(), the frames boolean indexing, melt and merge return),
\* never to df_components, df_sets or df_projects.
tables_after(value, p, f) == value

\* An exception left load_data_v10: the run ends in Streamlit's traceback.
Crashed == [NoRun EXCEPT !.status = "crashed", !.diag = "exception"]

\* @st.cache_data keeping only a result that holds data.
cache_store_if_data(r) ==
    IF r.value[1] = None THEN NoEntry ELSE [filled |-> TRUE, value |-> r.value]

\* @st.cache_data: the returned tuple, whatever it is, becomes the entry of
\* the (argument-less) function; an exception stores nothing.
cache_store(r) == IF r.raised THEN NoEntry ELSE [filled |-> TRUE, value |-> r.value]

\* The call load_data_v10() of line 237, through the cache.
cached_call(entry, wb) ==
    IF entry.filled THEN [raised |-> FALSE, value |-> entry.value]
    ELSE load_data_v10(wb)

\* What the widgets offer on the tables in value.
SearchTerms == {<<>>, Txt.ab}

Options(df, cands) ==
    IF get_col(df, cands) = NoCol THEN {} ELSE unique(df, get_col(df, cands))

Picks(opts) == {S \in SUBSET opts : Cardinality(S) <= MaxPick}

StatusOptions(value) == Options(value[1], StatusCandidates)
CategoryOptions(value) == Options(value[1], <<ViewLit.Category>>)
SetOptions(value) == Options(value[2], <<ViewLit.Set_No, ViewLit.Set>>)

\* The filters that differ from f in the one widget the user touched.
OneChange(value, p, f) ==
    CASE p = "Inventory Overview" ->
           {[f EXCEPT !.sel_stat = Chosen(S)] : S \in Picks(StatusOptions(value))}
           \cup {[f EXCEPT !.sel_cat = Chosen(S)] : S \in Picks(CategoryOptions(value))}
           \cup {[f EXCEPT !.search_inv = t] : t \in SearchTerms}
      [] p = "Delivery Tracking" ->
           {[f EXCEPT !.selected_sets = S] : S \in Picks(SetOptions(value))}
           \cup {[f EXCEPT !.search_del = t] : t \in SearchTerms}
      [] OTHER -> {}

\* Every value the filters hold is still among the options.
ValidFilters(value, f) ==
    /\ value[1] # None
    /\ f.sel_stat.vals \subseteq StatusOptions(value)
    /\ f.sel_cat.vals \subseteq CategoryOptions(value)
    /\ f.selected_sets \subseteq SetOptions(value)

ProjectChoices(value) ==
    IF value[1] = None THEN {NoSelection}
    ELSE {NoSelection} \cup all_projects(value[3])

\* The script runs from the top with the widgets at p, sel and f: the call
\* of line 237 goes through the cache, then the page branch is shown.
RunScript(r, p, sel, f) ==
    /\ page' = p
    /\ selected_proj' = sel
    /\ filters' = f
    /\ cache' = IF cache.filled THEN cache ELSE cache_store(r)
    /\ IF r.raised
       THEN /\ run' = Crashed
            /\ UNCHANGED <<df_components, df_sets, df_projects>>
       ELSE /\ df_components' = tables_after(r.value, p, f)[1]
            /\ df_sets' = tables_after(r.value, p, f)[2]
            /\ df_projects' = tables_after(r.value, p, f)[3]
            /\ run' = script(r.value, p, sel, f)
    /\ hist' = IF cache.filled THEN [hist EXCEPT !.event = "run"]
               ELSE [execs |-> hist.execs + 1, event |-> "run",
                     source |-> workbook]
    /\ UNCHANGED <<workbook, harnessVars>>

\* hist counts no further than MaxExec executions.
CanRun == cache.filled \/ hist.execs < MaxExec

\* The session opens: the first run, every widget at its default.
FirstRun ==
    /\ run.status = "idle"
    /\ CanRun
    /\ RunScript(cached_call(cache, workbook), page, NoSelection, NoFilters)

\* The user picks another page in the nav_main radio; the widgets of the
\* page left are gone and those of the new page at their defaults.
SelectPage ==
    /\ run.status # "idle"
    /\ CanRun
    /\ \E p \in Pages \ {page} :
          RunScript(cached_call(cache, workbook), p, NoSelection, NoFilters)

\* The user picks a project, or clears the selectbox.
SelectProject ==
    /\ run.status = "rendered"
    /\ page = "Project Explorer"
    /\ CanRun
    /\ LET r == cached_call(cache, workbook)
       IN  \E sel \in ProjectChoices(r.value) \ {selected_proj} :
              RunScript(r, page, sel, filters)

\* The user changes one multiselect or search box of the page shown.
ChangeFilter ==
    /\ run.status = "rendered"
    /\ CanRun
    /\ LET r == cached_call(cache, workbook)
       IN  /\ r.value[1] # None
           /\ \E f \in OneChange(r.value, page, filters) \ {filters} :
                 RunScript(r, page, selected_proj, f)

\* st.cache_data.clear()
cache_clear(entry) == NoEntry

\* The "Update" button: st.cache_data.clear(), then st.rerun(): the script
\* starts again with the widgets as they are; a widget whose value is no
\* longer among its options is back at its default.
ClickUpdate ==
    LET cleared == cache_clear(cache)
        r   == cached_call(cleared, workbook)
        sel == IF selected_proj \in ProjectChoices(r.value)
               THEN selected_proj ELSE NoSelection
        f   == IF ValidFilters(r.value, filters) THEN filters ELSE NoFilters
    IN  /\ run.status # "idle"
        /\ cache' = IF cleared.filled THEN cleared ELSE cache_store(r)
        /\ selected_proj' = sel
        /\ filters' = f
        /\ IF r.raised
           THEN /\ run' = Crashed
                /\ UNCHANGED <<df_components, df_sets, df_projects>>
           ELSE /\ df_components' = tables_after(r.value, page, f)[1]
                /\ df_sets' = tables_after(r.value, page, f)[2]
                /\ df_projects' = tables_after(r.value, page, f)[3]
                /\ run' = script(r.value, page, sel, f)
        /\ hist' = IF cleared.filled THEN [hist EXCEPT !.event = "update"]
                   ELSE [execs |-> 1, event |-> "update", source |-> workbook]
        /\ UNCHANGED <<workbook, page, harnessVars>>

---------------------------------------------------------------------------
(* The workbooks on disk.                                                  *)

Sheet(n, t) == [name |-> n, table |-> t]
Book(sh) == [exists |-> TRUE, readable |-> TRUE, sheets |-> sh]

CompA == Frame(<<Hdr.MfgNo_sp, ViewLit.Status, ViewLit.Category,
                 ViewLit.SubCategory>>,
               <<<<Txt.abc_123, Txt.available, Txt.sensor, Txt.motor>>,
                 <<Txt.f2095_0, Txt.Backorder, NaN, NaN>>>>)
CompB == Frame(<<ViewLit.Part_Number, ViewLit.Status>>,
               <<<<Txt.xyz999, Txt.available>>>>)
SetsA == Frame(<<ViewLit.Set_No, ViewLit.Final_Status, ViewLit.Mfg_No>>,
               <<<<Txt.Set_1, Txt.released, Txt.abc_123>>,
                 <<Txt.Set_2, Txt.Backorder, Txt.f2095_0>>>>)
ProjA == Frame(<<ViewLit.Project, Hdr.Component_1, Hdr.Component_2>>,
               <<<<Txt.p1, Txt.ABC_123, NaN>>,
                 <<Txt.p2, Txt.f2095_0, Txt.xyz999>>,
                 <<Txt.p3, Dash, NaN>>>>)

WB_Full == Book(<<Sheet(SheetName.Components, CompA), Sheet(SheetName.Delivery_Sets, SetsA),
                  Sheet(SheetName.Projects_Considered, ProjA)>>)
WB_CompOnly == Book(<<Sheet(SheetName.Sheet1, CompB)>>)
WB_NoRows == Book(<<Sheet(SheetName.Components, Frame(<<ViewLit.MfgNo, ViewLit.Status>>, <<>>)),
                    Sheet(SheetName.Projects_Considered, ProjA)>>)
WB_Corrupt == [exists |-> TRUE, readable |-> FALSE, sheets |-> <<>>]
WB_NoSheets == Book(<<>>)
WB_RepeatedHeader ==
    Book(<<Sheet(SheetName.Components, Frame(<<ViewLit.Status, Hdr.Status_sp>>,
                                     <<<<Txt.available, Txt.Backorder>>>>))>>)
WB_IntHeader ==
    Book(<<Sheet(SheetName.Components, CompA),
           Sheet(SheetName.Delivery_Sets, Frame(<<ViewLit.Set_No, IntHeader>>,
                                        <<<<Txt.Set_1, Txt.released>>>>))>>)

Workbooks == {NoFile, WB_Corrupt, WB_NoSheets, WB_RepeatedHeader, WB_IntHeader,
              WB_Full, WB_CompOnly, WB_NoRows}

\* The file is replaced, removed or damaged on disk.
WorkbookChange ==
    /\ workbook' \in Workbooks \ {workbook}
    /\ hist' = [hist EXCEPT !.event = "disk"]
    /\ UNCHANGED <<cache, df_components, df_sets, df_projects, page,
                   selected_proj, filters, run, harnessVars>>

HarnessOff == h_df = None /\ h_cands = <<>> /\ h_ret = <<>> /\ h_pc = "off"

Init ==
    /\ workbook \in Workbooks
    /\ cache = NoEntry
    /\ df_components = None /\ df_sets = None /\ df_projects = None
    /\ page = "Inventory Overview"
    /\ selected_proj = NoSelection
    /\ filters = NoFilters
    /\ run = NoRun
    /\ hist = [NoHist EXCEPT !.source = workbook]
    /\ HarnessOff

Next == \/ FirstRun \/ SelectPage \/ SelectProject \/ ChangeFilter
        \/ ClickUpdate \/ WorkbookChange

Spec == Init /\ [][Next]_vars

---------------------------------------------------------------------------
(* The BOM linker on workbooks built around one raw part-number text.      *)

KeyHeaders == {ViewLit.MfgNo, ViewLit.Mfg_No, ViewLit.PartNo, ViewLit.Part_Number}

\* A Components sheet whose key column holds t, alone or beside a second
\* row; a Projects Considered sheet whose project P1 holds t in its first
\* slot.
SecondRows(t) == {<<>>, <<<<t, Txt.Backorder>>>>, <<<<Txt.xyz999, Txt.Backorder>>>>}

\* The raw part-number texts: every text of at most MaxKeyLen characters,
\* the named texts, and a missing value.
KeyTexts == UNION {[1..n -> Alphabet] : n \in 0..MaxKeyLen}
              \cup NamedTexts \cup {NaN}

BomBook(k, t, more) ==
    Book(<<Sheet(SheetName.Components,
                 Frame(<<k, ViewLit.Status>>, <<<<t, ViewLit.Available>>>> \o more)),
           Sheet(SheetName.Projects_Considered,
                 Frame(<<ViewLit.Project, Hdr.Component_1, Hdr.Component_2>>,
                       <<<<Txt.P1, t, Txt.xyz999>>>>))>>)

\* A workbook whose project P1 has the slots "ABC-123", "", "-", "xyz999"
\* against components that hold "ABC-123" and not "XYZ999", and whose
\* project P2 has no usable slot.
WB_Example ==
    Book(<<Sheet(SheetName.Components,
                 Frame(<<ViewLit.MfgNo, ViewLit.Status>>, <<<<Txt.ABC_123, ViewLit.Available>>>>)),
           Sheet(SheetName.Projects_Considered,
                 Frame(<<ViewLit.Project, Hdr.Component_1, Hdr.Component_2,
                         Hdr.Component_3, Hdr.Component_4>>,
                       <<<<Txt.P1, Txt.ABC_123, Txt.empty, Dash, Txt.xyz999>>,
                         <<Txt.P2, NaN, Dash, Txt.zero, Txt.a>>>>))>>)

InitBOM ==
    /\ workbook \in {WB_Example} \cup
         UNION {{BomBook(k, t, more) : k \in KeyHeaders, more \in SecondRows(t)} :
                t \in KeyTexts}
    /\ cache = NoEntry
    /\ df_components = None /\ df_sets = None /\ df_projects = None
    /\ page = "Inventory Overview"
    /\ selected_proj = NoSelection
    /\ filters = NoFilters
    /\ run = NoRun
    /\ hist = [NoHist EXCEPT !.source = workbook]
    /\ HarnessOff

\* The session opens and the user goes to the Project Explorer.
OpenExplorer ==
    /\ run.status # "idle"
    /\ page # "Project Explorer"
    /\ CanRun
    /\ RunScript(cached_call(cache, workbook), "Project Explorer",
                 NoSelection, NoFilters)

NextBOM == FirstRun \/ OpenExplorer \/ SelectProject

SpecBOM == InitBOM /\ [][NextBOM]_vars

---------------------------------------------------------------------------
(* Claims about the loader and the cache.                                  *)

\* The three tables the last run bound at line 237.
Loaded == <<df_components, df_sets, df_projects>>

\* The workbooks on which a step of reading or cleaning fails: the file is
\* no workbook, has no sheet, has a header that is no text, or has one
\* header twice once the headers are stripped.
FailingBooks == {WB_Corrupt, WB_NoSheets, WB_RepeatedHeader, WB_IntHeader}

\* The workbook has a sheet whose name contains every word of words.
HasSheet(wb, words) ==
    \E i \in 1..Len(wb.sheets) : \A w \in words : contains(wb.sheets[i].name, w)

\* C9: the loader is all-or-nothing and never a fault.  No run ends in an
\* exception; the three tables are all absent or all present; when the file
\* the pipeline read was missing or failed to read or clean, all three are
\* absent and the run halted on the "File not found" diagnostic before any
\* view ran; otherwise all three are present, and a Sets or Projects sheet
\* that is missing is an empty table.
C9_AllOrNothing ==
    /\ run.status # "crashed"
    /\ run.status # "idle" =>
         /\ \/ \A k \in 1..3 : Loaded[k].kind = "none"
            \/ \A k \in 1..3 : Loaded[k].kind = "frame"
         /\ (hist.source = NoFile \/ hist.source \in FailingBooks) =>
               /\ Loaded = NoneTriple
               /\ run.status = "halted"
               /\ run.view = "none"
               /\ run.diag = "File not found"
         /\ (hist.source # NoFile /\ hist.source \notin FailingBooks) =>
               /\ \A k \in 1..3 : Loaded[k].kind = "frame"
               /\ run.view = page
               /\ ~HasSheet(hist.source, {ViewLit.Delivery}) => df_sets = EmptyFrame
               /\ ~HasSheet(hist.source, {ViewLit.Project, ViewLit.Considered})
                     => df_projects = EmptyFrame

\* C9 witness: a workbook with a number in a header row was read; all three
\* tables are absent, and the run, with the Delivery Tracking page chosen,
\* halted on the diagnostic before the view ran.
C9_Witness ==
    /\ hist.source = WB_IntHeader
    /\ Loaded = NoneTriple
    /\ run.status = "halted"
    /\ run.diag = "File not found"
    /\ run.view = "none"
    /\ page = "Delivery Tracking"

\* What C10 asks of every state: the pipeline ran at most once since the
\* last reload (or the start); once a run happened its result is the cache
\* entry, the tables of the run are that entry, and the entry is what the
\* pipeline gives on the workbook it read; right after a reload the
\* workbook it read is the current one.
C10_State ==
    /\ hist.execs <= 1
    /\ run.status # "idle" =>
         /\ cache.filled
         /\ Loaded = cache.value
         /\ cache.value = load_data_v10(hist.source).value
    /\ hist.event = "update" => hist.source = workbook

\* What C10 asks of every step: a run that is no reload leaves a filled
\* cache and the execution count as they are; a reload executes the
\* pipeline once more, on the current workbook.
C10_Step ==
    /\ (cache.filled /\ hist'.event # "update") =>
          /\ cache' = cache
          /\ hist'.execs = hist.execs
    /\ hist'.event = "update" =>
          /\ hist'.execs = 1
          /\ hist'.source = workbook
          /\ cache'.value = load_data_v10(workbook).value

\* C10: across any sequence of interactions the pipeline is executed at most
\* once between two reloads, every run in between observes the result of
\* that execution (also when the workbook changed on disk or the execution
\* returned "no data"), and a reload discards the entry and re-executes the
\* pipeline against the current workbook.
C10_CachedPipeline == []C10_State /\ [][C10_Step]_vars

\* C10 witness: the first execution found no file and returned "no data";
\* the full workbook was then put on disk, and a later run, without a
\* reload, still observed "no data" and halted.
C10_Witness ==
    /\ hist.source = NoFile
    /\ workbook = WB_Full
    /\ hist.event = "run"
    /\ hist.execs = 1
    /\ cache.filled
    /\ Loaded = NoneTriple
    /\ run.status = "halted"
    /\ page = "Project Explorer"

---------------------------------------------------------------------------
(* Claims about the BOM linker.                                            *)

\* The Components and Projects Considered sheets the pipeline read.
RawComp == hist.source.sheets[1].table
RawProj == hist.source.sheets[2].table

\* The Project Explorer shows the BOM of a selected project.
ExplorerShown ==
    /\ run.status = "rendered"
    /\ run.view = "Project Explorer"
    /\ selected_proj # NoSelection

\* The component-slot columns, and the rows of the selected project.
SlotCols == {j \in 1..Len(df_projects.columns) :
               contains(df_projects.columns[j], ViewLit.Component)}
SelectedRows == {r \in 1..Len(df_projects.rows) :
                   df_projects.rows[r][1] = selected_proj}

\* The BOM line items kept for slot column j.
ItemsOf(j) == {n \in 1..Len(run.bom) : run.bom[n].variable = df_projects.columns[j]}

\* The column of df_components the resolver picks as the join key.
KeyIdx == SetMin(ColIdx(df_components, get_col(df_components, MfgNoCandidates)))

\* The rows of the joined table that carry slot column j.
JoinedOf(j) == {m \in 1..Len(run.df_bom.rows) :
                  run.df_bom.rows[m][2] = df_projects.columns[j]}

\* C2: a slot of the selected project and a Component row that hold the
\* same raw part-number text end up with equal keys, whichever candidate
\* header names the key column: when the slot survives the junk filter, its
\* key is the cleaned key cell of that Component row, and the joined table
\* has a row for the slot carrying that Component row's status.
C2_LinkerMatchesCleaner ==
    ExplorerShown =>
      \A r \in SelectedRows, j \in SlotCols, cr \in 1..Len(RawComp.rows) :
        (/\ RawProj.rows[r][j] # NaN
         /\ RawProj.rows[r][j] = RawComp.rows[cr][KeyIdx]
         /\ ItemsOf(j) # {})
        => /\ \A n \in ItemsOf(j) :
                 run.bom[n].MfgNo = df_components.rows[cr][KeyIdx]
           /\ run.df_bom # None
           /\ \E m \in JoinedOf(j) :
                 run.df_bom.rows[m][SetMin(ColIdx(run.df_bom, ViewLit.Status))]
                   = df_components.rows[cr][SetMin(ColIdx(df_components, ViewLit.Status))]

\* C3: the joined BOM table has exactly one row for each (project, slot)
\* pair that survived the junk filter, whatever the Component table holds.
C3_OneRowPerSlot ==
    ExplorerShown =>
      /\ run.df_bom # None
      /\ Len(run.df_bom.rows) = Len(run.bom)
      /\ \A j \in SlotCols : Cardinality(JoinedOf(j)) = Cardinality(ItemsOf(j))

\* Trim, uppercase, strip one trailing ".0".
Normalized(v) ==
    LET u == upper(strip(v))
    IN  IF endswith(u, <<".", "0">>) THEN SubSeq(u, 1, Len(u) - 2) ELSE u

Denylist == {Dash, ViewLit.UNKNOWN, ViewLit.NAN, ViewLit.NONE, ViewLit.NAT,
             ViewLit.zero}

\* Longer than one character and not on the denylist.
Survives(n) == Len(n) > 1 /\ n \notin Denylist

\* C4: of the slot values of the selected project, as the loaded Projects
\* table holds them, the linker keeps exactly those whose normalized text
\* (trim, uppercase, strip trailing ".0") is longer than one character and
\* not one of "-", "UNKNOWN", "NAN", "NONE", "NAT", "0", each once and under
\* its normalized text; no other key reaches the join; slots "ABC-123", "",
\* "-", "xyz999" leave "ABC-123" and "XYZ999"; and a project without a
\* surviving slot gives an empty joined table and a readiness of 0.
C4_JunkFilter ==
    ExplorerShown =>
      /\ \A j \in SlotCols :
           LET kept == {r \in SelectedRows :
                          /\ df_projects.rows[r][j] # NaN
                          /\ Survives(Normalized(df_projects.rows[r][j]))}
           IN  /\ Cardinality(ItemsOf(j)) = Cardinality(kept)
               /\ \A r \in kept :
                     \E n \in ItemsOf(j) :
                        run.bom[n].MfgNo = Normalized(df_projects.rows[r][j])
      /\ \A n \in 1..Len(run.bom) :
           /\ Survives(run.bom[n].MfgNo)
           /\ run.bom[n].proj = selected_proj
           /\ \E r \in SelectedRows, j \in SlotCols :
                 /\ run.bom[n].variable = df_projects.columns[j]
                 /\ df_projects.rows[r][j] # NaN
                 /\ run.bom[n].MfgNo = Normalized(df_projects.rows[r][j])
      /\ run.df_bom # None =>
           \A m \in 1..Len(run.df_bom.rows) : Survives(run.df_bom.rows[m][3])
      /\ (run.bom = <<>> /\ run.df_bom # None) =>
           /\ run.df_bom.rows = <<>>
           /\ run.kpi = [total |-> 0, good |-> 0, pct |-> 0]
      /\ (hist.source = WB_Example /\ selected_proj = Txt.P1) =>
           [n \in 1..Len(run.bom) |-> run.bom[n].MfgNo]
             = <<Txt.ABC_123, upper(Txt.xyz999)>>

\* C4 witness: project P1 with the slots "ABC-123", "", "-", "xyz999" is
\* shown; the BOM holds "ABC-123" and "XYZ999" and the joined table two
\* rows, the first resolved and the second not.
C4_Witness ==
    /\ ExplorerShown
    /\ hist.source = WB_Example
    /\ selected_proj = Txt.P1
    /\ Len(run.bom) = 2
    /\ run.bom[1].MfgNo = Txt.ABC_123
    /\ run.bom[2].MfgNo = <<"X","Y","Z","9","9","9">>
    /\ Len(run.df_bom.rows) = 2
    /\ run.df_bom.rows[1][4] = ViewLit.Available
    /\ run.df_bom.rows[2][4] = Dash

---------------------------------------------------------------------------
(* Claims about the KPIs of the three views.                               *)

\* C11: in every view that rendered, the KPI percentage is 0 whenever the
\* total row count is 0, whatever the tables, filters, search text and
\* project selection; the percentage is always between 0 and 100 and the
\* counted rows never exceed the total.  (The quotient is only taken where
\* the total is positive: a division by zero would stop the evaluation of
\* the step that reaches it.)
C11_KpiZero ==
    run.status = "rendered" =>
      /\ run.kpi.total >= 0
      /\ run.kpi.good \in 0..run.kpi.total
      /\ run.kpi.pct \in 0..100
      /\ run.kpi.total = 0 => run.kpi.pct = 0
      /\ run.view = "Inventory Overview" =>
            run.kpi.total = Len(run.df_filtered.rows)
      /\ run.view = "Delivery Tracking" =>
            run.kpi.total = Len(run.df_filtered.rows)
      /\ (run.view = "Project Explorer" /\ run.df_bom # None) =>
            run.kpi.total = Len(run.df_bom.rows)

\* The three cases of zero rows: a status filter and a search that no row
\* of the Components passes, a set and a search that no row of the delivery
\* sets passes, a project without a usable slot.
C11_InventoryEmpty ==
    /\ run.status = "rendered" /\ run.view = "Inventory Overview"
    /\ hist.source = WB_Full
    /\ ~filters.sel_stat.all /\ filters.sel_stat.vals # {}
    /\ filters.search_inv # <<>>
    /\ run.df_filtered.rows = <<>>
    /\ run.kpi = [total |-> 0, good |-> 0, pct |-> 0]

C11_DeliveryEmpty ==
    /\ run.status = "rendered" /\ run.view = "Delivery Tracking"
    /\ hist.source = WB_Full
    /\ filters.selected_sets # {}
    /\ filters.search_del # <<>>
    /\ run.df_filtered.rows = <<>>
    /\ run.kpi = [total |-> 0, good |-> 0, pct |-> 0]

C11_ProjectEmpty ==
    /\ run.status = "rendered" /\ run.view = "Project Explorer"
    /\ hist.source = WB_Full
    /\ selected_proj # NoSelection
    /\ run.bom = <<>>
    /\ run.df_bom # None
    /\ run.df_bom.rows = <<>>
    /\ run.kpi = [total |-> 0, good |-> 0, pct |-> 0]

\* C11 witness: the Delivery Tracking view rendered with a set selected and
\* a search text that no row of that set contains: zero rows, 0 percent.
C11_Witness == C11_DeliveryEmpty

---------------------------------------------------------------------------
(* Claims about the join-key column of the cleaned Components.             *)

\* The column of the cleaned table the resolver picks as the join key.
KeyOfOnce == get_col(Once, MfgNoCandidates)

\* The cells of that column: row r, cleaned and as given.
KeyCell(r) == Once.rows[r][SetMin(ColIdx(Once, KeyOfOnce))]
RawKeyCell(r) == h_df.rows[r][SetMin(ColIdx(Once, KeyOfOnce))]

FloatSuffix == <<".", "0">>

---------------------------------------------------------------------------
(* Claims about the shared tables.                                         *)

\* What C13 asks of every state: once a run happened, the three tables hold
\* the headers and cells the pipeline produced on the workbook it read.
C13_State ==
    run.status \notin {"idle", "crashed"} =>
       Loaded = load_data_v10(hist.source).value

\* What C13 asks of every step: a page selection, filter choice, search or
\* project selection that is no reload leaves the three tables as they are.
C13_Step ==
    (run.status # "idle" /\ hist'.event # "update") =>
       /\ df_components' = df_components
       /\ df_sets' = df_sets
       /\ df_projects' = df_projects

=============================================================================
